---- MODULE Spec2Model ----
(***************************************************************************)
(* Model of enrich_exercises.py: the resumable batch-enrichment loop of    *)
(* ExerciseEnricher (progress file, output file, provider call, response   *)
(* parsing, commit of one exercise, inter-item delay) over several runs    *)
(* of the script on the same input file (Spec); the run from the reading   *)
(* of the input file on (SpecInput); and _parse_response applied to a      *)
(* response text (ParseSpec).                                              *)
(***************************************************************************)
EXTENDS Integers, Sequences, FiniteSets

\* ------------------------------------------------------------------ bounds
MaxId == 2
MaxLen == 2
MaxRuns == 2
MaxTrans == 3
MaxLines == 3

Ids == 1..MaxId

\* ----------------------------------------------------------- pure helpers
Range(s) == {s[i] : i \in 1..Len(s)}

NoDup(s) == \A i, j \in 1..Len(s) : s[i] = s[j] => i = j

SeqsUpTo(S, n) == UNION {[1..k -> S] : k \in 0..n}

\* -------------------------------------------------------- files on disk
\* A file is absent, holds text json.load rejects ("corrupt": empty or
\* truncated), holds JSON of another top-level type ("wrongshape"), or holds
\* the JSON the script writes ("ok", with its list in data).
FileAbsent == [kind |-> "absent", data |-> << >>]
FileCorrupt == [kind |-> "corrupt", data |-> << >>]
FileWrongShape == [kind |-> "wrongshape", data |-> << >>]
FileOf(list) == [kind |-> "ok", data |-> list]

\* _load_progress: the id list of a readable progress file, else [].
LoadProgress(f) == IF f.kind = "ok" THEN f.data ELSE << >>

\* _load_existing_output: whatever json.load returns; [] when the file is
\* absent or json.load raises.  A parseable non-list value is returned as is.
OutList(items) == [shape |-> "list", items |-> items]
OutNonList == [shape |-> "nonlist", items |-> << >>]
LoadExistingOutput(f) ==
  IF f.kind = "ok" THEN OutList(f.data)
  ELSE IF f.kind = "wrongshape" THEN OutNonList
  ELSE OutList(<< >>)

\* ----------------------------------------------------------- input file
\* An element of the input that is no JSON object (a number, a string, a
\* list, null): `exercise.get` does not exist on it.  Objects are
\* represented by their id.
NonObject == 0
IsObject(item) == item \in Ids

\* The input file is missing, holds text json.load rejects, holds a JSON
\* number, boolean or null, holds a JSON list ("list", its elements in
\* data), or holds a JSON string or object ("iterable": len() and the for
\* loop accept it, and its elements are strings).
InputMissing == [kind |-> "missing", data |-> << >>]
InputBadJson == [kind |-> "badjson", data |-> << >>]
InputScalar == [kind |-> "scalar", data |-> << >>]
InputOf(list) == [kind |-> "list", data |-> list]
InputIterable(list) == [kind |-> "iterable", data |-> list]

\* A well-formed input: a list whose elements are all objects.
ValidInput(f) ==
  f.kind = "list" /\ \A i \in 1..Len(f.data) : IsObject(f.data[i])

\* ------------------------------------------------------ response parser
\* A response text is a sequence of lines and the JSON document its "doc"
\* lines spell.  A line is a code fence (it starts with ```, a language
\* tag may follow), a fence with the document on the same line, the bare
\* word json, or the document.
LineKinds == {"fence", "fence_doc", "json", "doc"}
StartsWithFence(line) == line \in {"fence", "fence_doc"}

\* The text _parse_response hands to json.loads: if the stripped text
\* starts with ```, every line starting with ``` is dropped, and a leading
\* "json" is cut off what remains.
StripFences(lines) ==
  IF lines # << >> /\ StartsWithFence(lines[1])
  THEN LET kept == SelectSeq(lines, LAMBDA l : ~StartsWithFence(l))
       IN IF kept # << >> /\ kept[1] = "json" THEN Tail(kept) ELSE kept
  ELSE lines

\* JSON values.  A value of a field is given by its JSON type and, for
\* numbers and booleans, by the number Python compares it as.
JInt(n) == [type |-> "int", val |-> n]
JFloat(n) == [type |-> "float", val |-> n]
JBool(n) == [type |-> "bool", val |-> n]
JStr(n) == [type |-> "str", val |-> n]
JList == [type |-> "list", val |-> 0]
JOther == [type |-> "other", val |-> 0]

\* Mutant: any number passes for an int.
IsInstanceInt_AnyNumber(v) == v.type \in {"int", "bool", "float"}

\* `isinstance(v, int)`: bool is a subclass of int.
IsInstanceInt(v) == v.type \in {"int", "bool"}
\* `isinstance(v, list)`
IsInstanceList(v) == v.type = "list"
\* `v in [2, 4]`: == of Python, under which 2.0 and 2 are equal and a
\* string equals no number.
LanguageCodes == {2, 4}
InLanguageCodes(v) ==
  v.type \in {"int", "bool", "float"} /\ v.val \in LanguageCodes

\* The fields every translation must have, in the order they are checked.
RequiredFields == <<"name", "description", "language", "aliases", "notes">>
\* The number of translations required.
NumTranslations == 2

\* A translation: a JSON object with some fields (and the values of
\* language, aliases and notes when present), or another JSON value.
TransObject(fields, language, aliases, notes) ==
  [kind |-> "object", fields |-> fields, language |-> language,
   aliases |-> aliases, notes |-> notes]
TransOther ==
  [kind |-> "other", fields |-> {}, language |-> JOther,
   aliases |-> JOther, notes |-> JOther]

\* The parts of a document the parser looks at.  top is the JSON type of
\* the document: "nonjson" (no JSON at all), "scalar" (number, boolean,
\* null), "string", "list", "object"; has_pm tells whether
\* `"primary_muscle" in data` is true (a key of the object, an element of
\* the list, a substring of the string).
PmMissing == [kind |-> "missing", keys |-> {}]
PmOther == [kind |-> "other", keys |-> {}]
PmObject(keys) == [kind |-> "object", keys |-> keys]
TrMissing == [kind |-> "missing", items |-> << >>]
TrOther == [kind |-> "other", items |-> << >>]
TrList(items) == [kind |-> "list", items |-> items]
Doc(top, has_pm, pm, tr) ==
  [top |-> top, has_pm |-> has_pm, pm |-> pm, tr |-> tr]
NoDoc == Doc("nonjson", FALSE, PmMissing, TrMissing)

\* The results of _parse_response: None, an exception leaving the
\* function, or the parsed data.
ReturnNone == [kind |-> "None", data |-> NoDoc]
Raises == [kind |-> "Raise", data |-> NoDoc]
ReturnData(data) == [kind |-> "Data", data |-> data]

\* The index of the first translation failing a check, 0 if none fails.
RECURSIVE FirstBadTranslation(_, _)
FirstBadTranslation(items, i) ==
  IF i > Len(items) THEN 0
  ELSE LET t == items[i]
       IN IF \/ t.kind # "object"
             \/ \E k \in 1..Len(RequiredFields) :
                   RequiredFields[k] \notin t.fields
             \/ ~IsInstanceInt(t.language)
             \/ ~InLanguageCodes(t.language)
             \/ ~IsInstanceList(t.aliases)
             \/ ~IsInstanceList(t.notes)
          THEN i
          ELSE FirstBadTranslation(items, i + 1)

\* _parse_response after json.loads, check by check.  `in` on a number,
\* boolean or null raises TypeError; on a string or a list it is a
\* substring or element test, and indexing them with "primary_muscle"
\* raises TypeError.
ValidateData(data) ==
  IF data.top = "scalar" THEN Raises
  ELSE IF ~data.has_pm THEN ReturnNone
  ELSE IF data.top # "object" THEN Raises
  ELSE IF data.pm.kind # "object" THEN ReturnNone
  ELSE IF "name" \notin data.pm.keys \/ "name_en" \notin data.pm.keys
       THEN ReturnNone
  ELSE IF data.tr.kind # "list" THEN ReturnNone
  ELSE IF Len(data.tr.items) # NumTranslations THEN ReturnNone
  ELSE IF FirstBadTranslation(data.tr.items, 1) # 0 THEN ReturnNone
  ELSE ReturnData(data)

\* json.loads of the stripped text: the text is JSON iff it consists of
\* the document alone and the document is JSON.
IsJson(lines, doc) == lines = <<"doc">> /\ doc.top # "nonjson"

\* _parse_response: a JSONDecodeError is caught and gives None.
ParseText(raw) ==
  IF IsJson(StripFences(raw.lines), raw.doc)
  THEN ValidateData(raw.doc)
  ELSE ReturnNone

\* A response text: its lines and the document they spell.
RawText(lines, doc) == [lines |-> lines, doc |-> doc]

\* Outside a call of _parse_response there is no text and no result.
NoCall == << >>

\* Documents: a translation as the prompt asks for it, and the same with
\* one thing changed.
AllFields == {RequiredFields[k] : k \in 1..Len(RequiredFields)}
GoodTrans(lang) == TransObject(AllFields, JInt(lang), JList, JList)
TransVariants ==
  {GoodTrans(2), GoodTrans(4), TransOther}
    \cup {TransObject(AllFields \ {f},
                      IF f = "language" THEN JOther ELSE JInt(2),
                      IF f = "aliases" THEN JOther ELSE JList,
                      IF f = "notes" THEN JOther ELSE JList) : f \in AllFields}
    \cup {TransObject(AllFields, l, JList, JList) :
             l \in {JInt(3), JStr(2), JBool(1), JFloat(2)}}
    \cup {TransObject(AllFields, JInt(2), JOther, JList),
          TransObject(AllFields, JInt(4), JList, JOther)}

PmValues ==
  {PmMissing, PmOther} \cup {PmObject(k) : k \in SUBSET {"name", "name_en"}}
\* Values of translations, the lists having at most n elements.
TrValues(n) ==
  {TrMissing, TrOther}
    \cup {TrList(l) : l \in SeqsUpTo(TransVariants, n)}

\* A document meeting the schema, and one lacking its translations.
ValidDoc ==
  Doc("object", TRUE, PmObject({"name", "name_en"}),
      TrList(<<GoodTrans(2), GoodTrans(4)>>))
BadSchemaDoc ==
  Doc("object", TRUE, PmObject({"name", "name_en"}), TrMissing)

\* The documents considered: no JSON, a scalar, a string or a list with
\* or without "primary_muscle" in it, and objects: every primary_muscle
\* with absent, non-list and good translations, and a good primary_muscle
\* with every translations value of at most n elements.
Docs(n) ==
  {NoDoc, Doc("scalar", FALSE, PmMissing, TrMissing)}
    \cup {Doc(t, h, PmMissing, TrMissing) :
             t \in {"string", "list"}, h \in BOOLEAN}
    \cup {Doc("object", pm.kind # "missing", pm, tr) :
             pm \in PmValues, tr \in {TrMissing, TrOther, ValidDoc.tr}}
    \cup {Doc("object", TRUE, ValidDoc.pm, tr) : tr \in TrValues(n)}

\* The response texts considered: every document on its own, and a few
\* documents in every arrangement of at most m lines.
RawTexts(n, m) ==
  {RawText(<<"doc">>, d) : d \in Docs(n)}
    \cup {RawText(l, d) :
             l \in SeqsUpTo(LineKinds, m),
             d \in {NoDoc, ValidDoc, BadSchemaDoc,
                    Doc("scalar", FALSE, PmMissing, TrMissing)}}

\* ------------------------------------------------------------- provider
\* What generate_response hands back for one call: it raises, returns "",
\* or returns text that is not JSON, JSON that is a bare scalar, a JSON
\* object violating the schema, or a JSON object meeting the schema.
Responses == {"raise", "empty", "nonjson", "scalar", "badschema", "valid"}

\* _parse_response: "None" (rejected), "Raise" (an exception other than
\* JSONDecodeError leaves the function), "Data" (the parsed value).
ParseResponse(resp) ==
  CASE resp = "nonjson" -> "None"
    [] resp = "scalar" -> "Raise"
    [] resp = "badschema" -> "None"
    [] resp = "valid" -> "Data"

\* The record enrich_exercise builds for an exercise.
EnrichedExercise(id, resp) == [id |-> id, enriched_data |-> resp]

\* Mutant: the membership test never finds the id.
IsProcessed_Never(id, ids) == FALSE

\* `exercise_id in self.processed_ids`
IsProcessed(id, ids) == id \in Range(ids)

\* Mutant: the id is not added to the list.
MarkDone_Forget(ids, id) == ids

\* Mutant: the list is started afresh with the id.
MarkDone_Reset(ids, id) == <<id>>

\* _save_progress, in memory: the id is appended unless already listed.
MarkDone(ids, id) == IF IsProcessed(id, ids) THEN ids ELSE Append(ids, id)

\* Mutant: the record replaces the list instead of joining it.
AppendRecord_Replace(items, rec) == <<rec>>

\* Mutant: the record is put in front of the list.
AppendRecord_Prepend(items, rec) == <<rec>> \o items

\* _save_enriched_exercise, in memory: the record is appended.
AppendRecord(items, rec) == Append(items, rec)


\* ------------------------------------------------------------------ state
VARIABLES
  inputFile,           \* INPUT_FILE on disk
  exercises,           \* the input list: the id of each exercise, in order
  progressFile,        \* PROGRESS_FILE on disk
  outputFile,          \* OUTPUT_FILE on disk
  run,                 \* number of the current run of the script
  pc,                  \* where the current run stands
  idx,                 \* 1-based loop index of process_all_exercises
  processed_ids,       \* self.processed_ids
  enriched_exercises,  \* self.enriched_exercises
  response_text,       \* what the provider call of the current item gave
  raw,                 \* the response text _parse_response is called on
  verdict,             \* what that call returned
  \* history of the current run
  loaded,              \* ids in self.processed_ids right after __init__
  loadedOK,            \* the loaded stores satisfied the store invariant
  calls,               \* ids the provider was invoked for, in order
  writesFor,           \* ids for which a store write was started
  trace,               \* outcome of every item the loop has dealt with
  writeFails,          \* <<id, file>>: a persist of that file failed for id
  interrupted,         \* the run was ended by an interrupt or a kill
  report,              \* the counts the run has printed, in order
  \* history across runs
  faulty,              \* some load/write fault or interruption has happened
  seenOK,              \* per id: did the parser accept the provider's text
                       \* (kept while ~faulty and det, blank afterwards)
  det,                 \* the provider has answered each id the same way
                       \* (kept while ~faulty, TRUE afterwards)
  prevOut              \* the output file as the previous run left it
                       \* (kept while ~faulty, FileAbsent afterwards)

vars == <<inputFile, exercises, progressFile, outputFile, run, pc, idx,
          processed_ids, enriched_exercises, response_text, raw, verdict,
          loaded, loadedOK, calls, writesFor, trace, writeFails, interrupted,
          report, faulty, seenOK, det, prevOut>>

inputVars == <<inputFile, exercises>>
parseVars == <<raw, verdict>>
fileVars == <<progressFile, outputFile>>
memVars == <<processed_ids, enriched_exercises>>
runHist == <<loaded, loadedOK, calls, writesFor, trace, writeFails,
            interrupted>>
crossHist == <<faulty, seenOK, det, prevOut>>

\* The ids of the records of a list of enriched exercises, in order.
RecordIds(items) == [i \in 1..Len(items) |-> items[i].id]

\* How many records of `items` carry `id`.
CountOf(id, items) == Cardinality({i \in 1..Len(items) : items[i].id = id})

\* The store invariant of the data model: an id is completed iff exactly
\* one record carries it (and no id is carried by two records).
StoreInv(ids, items) ==
  /\ \A id \in Range(ids) : CountOf(id, items) = 1
  /\ \A i \in 1..Len(items) :
       items[i].id \in Range(ids) /\ CountOf(items[i].id, items) = 1

\* Nothing recorded about the provider's answers.
NoSeen == [i \in Ids |-> "none"]

\* A fault is recorded: the cross-run history kept for fault-free
\* histories is dropped.
Faulted ==
  /\ faulty' = TRUE
  /\ seenOK' = NoSeen
  /\ det' = TRUE
  /\ prevOut' = FileAbsent

\* Files a previous run, or the user, can have left behind (a first run
\* finds none): a progress file listing the ids 1..k, an output file
\* holding the records of the ids 1..k.  The two files are chosen
\* independently, and the input ranges over every list of ids.
InitProgressFiles ==
  {FileAbsent, FileCorrupt, FileWrongShape}
    \cup {FileOf([i \in 1..k |-> i]) : k \in Ids}

InitOutputFiles ==
  {FileAbsent, FileCorrupt, FileWrongShape}
    \cup {FileOf([i \in 1..k |-> EnrichedExercise(i, "valid")]) : k \in Ids}

\* No fault in what is on disk: both files are absent or readable, and
\* what they hold satisfies the store invariant.
CleanFiles(pf, of) ==
  /\ pf.kind \in {"absent", "ok"}
  /\ of.kind \in {"absent", "ok"}
  /\ StoreInv(LoadProgress(pf), LoadExistingOutput(of).items)

Init ==
  /\ exercises \in SeqsUpTo(Ids, MaxLen)
  /\ inputFile = InputOf(exercises)
  /\ progressFile \in InitProgressFiles
  /\ outputFile \in InitOutputFiles
  /\ run = 1
  /\ pc = "init"
  /\ idx = 0
  /\ processed_ids = << >>
  /\ enriched_exercises = OutList(<< >>)
  /\ response_text = "none"
  /\ raw = NoCall
  /\ verdict = NoCall
  /\ loaded = {}
  /\ loadedOK = FALSE
  /\ calls = << >>
  /\ writesFor = {}
  /\ trace = << >>
  /\ writeFails = {}
  /\ interrupted = FALSE
  /\ report = << >>
  /\ faulty = ~CleanFiles(progressFile, outputFile)
  /\ seenOK = NoSeen
  /\ det = TRUE
  /\ prevOut = IF faulty THEN FileAbsent ELSE outputFile

\* An entry of trace: what became of an item, and whether the loop slept
\* after it.
Outcome(id, what) == [id |-> id, what |-> what, slept |-> FALSE]

\* ------------------------------------------------------------- operations
\* ExerciseEnricher.__init__: load both stores.
Construct ==
  /\ pc = "init"
  /\ processed_ids' = LoadProgress(progressFile)
  /\ enriched_exercises' = LoadExistingOutput(outputFile)
  /\ loaded' = Range(processed_ids')
  /\ loadedOK' = /\ enriched_exercises'.shape = "list"
                 /\ StoreInv(processed_ids', enriched_exercises'.items)
  /\ pc' = "start"
  /\ UNCHANGED <<parseVars, inputVars, report, fileVars, run, idx,
                 response_text, calls, writesFor, trace, writeFails,
                 interrupted, crossHist>>

\* process_all_exercises, header: `remaining = total - processed`.
Remaining == Len(exercises) - Len(processed_ids)

\* A printed count.
Count(what, n) == [what |-> what, n |-> n]

\* The counts of the header: "Total exercises", "Already processed",
\* "Remaining".
Header ==
  <<Count("total", Len(exercises)),
    Count("processed", Len(processed_ids)),
    Count("remaining", Remaining)>>

\* `if remaining == 0: return`
AllProcessedReturn ==
  /\ pc = "start"
  /\ Remaining = 0
  /\ report' = report \o Header
  /\ pc' = "done"
  /\ UNCHANGED <<parseVars, inputVars, fileVars, run, idx, memVars,
                 response_text, runHist, crossHist>>

\* Otherwise the for loop starts with idx = 1.
EnterLoop ==
  /\ pc = "start"
  /\ Remaining # 0
  /\ report' = report \o Header
  /\ idx' = 1
  /\ pc' = "loop"
  /\ UNCHANGED <<parseVars, inputVars, fileVars, run, memVars, response_text,
                 runHist, crossHist>>

\* The loop is exhausted: the summary is printed and the run ends.
Finish ==
  /\ pc = "loop"
  /\ idx > Len(exercises)
  /\ report' = Append(report, Count("enriched", Len(processed_ids)))
  /\ pc' = "done"
  /\ UNCHANGED <<parseVars, inputVars, fileVars, run, idx, memVars,
                 response_text, runHist, crossHist>>

\* `if exercise_id in self.processed_ids: continue` (no delay).
Skip ==
  /\ pc = "loop"
  /\ idx <= Len(exercises)
  /\ IsObject(exercises[idx])
  /\ IsProcessed(exercises[idx], processed_ids)
  /\ idx' = idx + 1
  /\ trace' = Append(trace, Outcome(exercises[idx], "skipped"))
  /\ UNCHANGED <<parseVars, inputVars, report, fileVars, run, pc, memVars,
                 response_text, loaded, loadedOK, calls, writesFor,
                 writeFails, interrupted, crossHist>>

\* Mutant: the provider is called whether or not the id is processed.
Invoke_IgnoresProcessed ==
  /\ pc = "loop"
  /\ idx <= Len(exercises)
  /\ IsObject(exercises[idx])
  /\ calls' = Append(calls, exercises[idx])
  /\ pc' = "call"
  /\ UNCHANGED <<parseVars, inputVars, report, fileVars, run, idx, memVars,
                 response_text, loaded, loadedOK, writesFor, trace,
                 writeFails, interrupted, crossHist>>

\* enrich_exercise up to the provider call: the id is not processed (the
\* second membership test of enrich_exercise agrees with the loop's),
\* the prompt is built and generate_response is invoked.
Invoke ==
  /\ pc = "loop"
  /\ idx <= Len(exercises)
  /\ IsObject(exercises[idx])
  /\ ~IsProcessed(exercises[idx], processed_ids)
  /\ calls' = Append(calls, exercises[idx])
  /\ pc' = "call"
  /\ UNCHANGED <<parseVars, inputVars, report, fileVars, run, idx, memVars,
                 response_text, loaded, loadedOK, writesFor, trace,
                 writeFails, interrupted, crossHist>>


\* The provider's answers so far, updated with the answer `ok` for `id`.
SeenAfter(id, ok) == [seenOK EXCEPT ![id] = IF ok THEN "ok" ELSE "bad"]
DetAfter(id, ok) == det /\ seenOK[id] \in {"none", IF ok THEN "ok" ELSE "bad"}

\* Mutant: an abandoned item is marked done in memory all the same.
ProviderReturn_MarksAbandoned ==
  /\ pc = "call"
  /\ \E resp \in Responses :
       LET id == exercises[idx]
           accepted == /\ resp \notin {"raise", "empty"}
                       /\ ParseResponse(resp) = "Data"
       IN /\ response_text' = resp
          /\ det' = (faulty \/ DetAfter(id, accepted))
          /\ seenOK' = IF det' /\ ~faulty THEN SeenAfter(id, accepted)
                       ELSE NoSeen
          /\ IF accepted
             THEN /\ pc' = "save_progress"
                  /\ trace' = trace
                  /\ processed_ids' = processed_ids
             ELSE /\ pc' = "delay"
                  /\ trace' = Append(trace, Outcome(id, "abandoned"))
                  /\ processed_ids' = MarkDone(processed_ids, id)
  /\ UNCHANGED <<parseVars, inputVars, report, fileVars, run, idx,
                 enriched_exercises, loaded, loadedOK, calls, writesFor,
                 writeFails, interrupted, faulty, prevOut>>

\* enrich_exercise, from the return of generate_response to the decision:
\* an exception of the provider or of the parser is caught (return None),
\* an empty response or a rejected one returns None, a response the parser
\* accepts goes on to the two saves.
ProviderReturn ==
  /\ pc = "call"
  /\ \E resp \in Responses :
       LET id == exercises[idx]
           accepted == /\ resp \notin {"raise", "empty"}
                       /\ ParseResponse(resp) = "Data"
       IN /\ response_text' = resp
          /\ det' = (faulty \/ DetAfter(id, accepted))
          /\ seenOK' = IF det' /\ ~faulty THEN SeenAfter(id, accepted)
                       ELSE NoSeen
          /\ IF accepted
             THEN /\ pc' = "save_progress"
                  /\ trace' = trace
             ELSE /\ pc' = "delay"
                  /\ trace' = Append(trace, Outcome(id, "abandoned"))
  /\ UNCHANGED <<parseVars, inputVars, report, fileVars, run, idx, memVars,
                 loaded, loadedOK, calls, writesFor, writeFails, interrupted,
                 faulty, prevOut>>

\* _save_progress, first half: the id joins self.processed_ids, then the
\* progress file is opened for writing, which empties it; makedirs or open
\* may raise, which is caught and leaves the file as it was.
SaveProgress ==
  /\ pc = "save_progress"
  /\ LET id == exercises[idx]
     IN /\ processed_ids' = MarkDone(processed_ids, id)
        /\ writesFor' = writesFor \cup {id}
  /\ \E opened \in BOOLEAN :
       IF opened
       THEN /\ progressFile' = FileCorrupt
            /\ pc' = "dump_progress"
            /\ UNCHANGED <<crossHist, writeFails>>
       ELSE /\ progressFile' = progressFile
            /\ pc' = "save_output"
            /\ Faulted
            /\ writeFails' = writeFails \cup {<<exercises[idx], "progress">>}
  /\ UNCHANGED <<parseVars, inputVars, report, outputFile, run, idx,
                 enriched_exercises, response_text, loaded, loadedOK, calls,
                 trace, interrupted>>

\* _save_progress, second half: json.dump writes the whole progress data
\* and the file is closed; a failure on the way is caught and leaves a
\* partly written file.
DumpProgress ==
  /\ pc = "dump_progress"
  /\ \E written \in BOOLEAN :
       /\ progressFile' = IF written THEN FileOf(processed_ids)
                          ELSE FileCorrupt
       /\ writeFails' = IF written THEN writeFails
                        ELSE writeFails \cup {<<exercises[idx], "progress">>}
       /\ IF written THEN UNCHANGED crossHist ELSE Faulted
  /\ pc' = "save_output"
  /\ UNCHANGED <<parseVars, inputVars, report, outputFile, run, idx, memVars,
                 response_text, loaded, loadedOK, calls, writesFor, trace,
                 interrupted>>

\* _save_enriched_exercise, first half: the record joins
\* self.enriched_exercises (append raises when the loaded value is no
\* list; enrich_exercise catches that and returns None), then the output
\* file is opened for writing as the progress file was.
SaveEnriched ==
  /\ pc = "save_output"
  /\ LET id == exercises[idx]
         rec == EnrichedExercise(id, response_text)
     IN IF enriched_exercises.shape # "list"
        THEN /\ pc' = "delay"
             /\ trace' = Append(trace, Outcome(id, "save_error"))
             /\ Faulted
             /\ UNCHANGED <<outputFile, enriched_exercises, writesFor,
                            writeFails>>
        ELSE /\ enriched_exercises' =
                  OutList(AppendRecord(enriched_exercises.items, rec))
             /\ writesFor' = writesFor \cup {id}
             /\ \E opened \in BOOLEAN :
                  IF opened
                  THEN /\ outputFile' = FileCorrupt
                       /\ pc' = "dump_output"
                       /\ UNCHANGED <<trace, writeFails, crossHist>>
                  ELSE /\ outputFile' = outputFile
                       /\ pc' = "delay"
                       /\ trace' = Append(trace, Outcome(id, "committed"))
                       /\ writeFails' = writeFails \cup {<<id, "output">>}
                       /\ Faulted
  /\ UNCHANGED <<parseVars, inputVars, report, progressFile, run, idx,
                 processed_ids, response_text, loaded, loadedOK, calls,
                 interrupted>>

\* _save_enriched_exercise, second half: json.dump of the whole list.
\* enrich_exercise then reports success and returns the record.
DumpEnriched ==
  /\ pc = "dump_output"
  /\ \E written \in BOOLEAN :
       /\ outputFile' = IF written THEN FileOf(enriched_exercises.items)
                        ELSE FileCorrupt
       /\ writeFails' = IF written THEN writeFails
                       ELSE writeFails \cup {<<exercises[idx], "output">>}
       /\ IF written THEN UNCHANGED crossHist ELSE Faulted
  /\ trace' = Append(trace, Outcome(exercises[idx], "committed"))
  /\ pc' = "delay"
  /\ UNCHANGED <<parseVars, inputVars, report, progressFile, run, idx,
                 memVars, response_text, loaded, loadedOK, calls, writesFor,
                 interrupted>>

\* Mutant: an abandoned item is taken up again instead of being left behind.
Delay_RetryAbandoned ==
  /\ pc = "delay"
  /\ trace' = [trace EXCEPT ![Len(trace)].slept = (idx < Len(exercises))]
  /\ idx' = IF trace[Len(trace)].what = "abandoned" THEN idx ELSE idx + 1
  /\ response_text' = "none"
  /\ pc' = "loop"
  /\ UNCHANGED <<parseVars, inputVars, report, fileVars, run, memVars, loaded,
                 loadedOK, calls, writesFor, writeFails, interrupted,
                 crossHist>>

\* Mutant: the loop sleeps after the last item as well.
Delay_SleepsAfterLast ==
  /\ pc = "delay"
  /\ trace' = [trace EXCEPT ![Len(trace)].slept = TRUE]
  /\ idx' = idx + 1
  /\ response_text' = "none"
  /\ pc' = "loop"
  /\ UNCHANGED <<parseVars, inputVars, report, fileVars, run, memVars, loaded,
                 loadedOK, calls, writesFor, writeFails, interrupted,
                 crossHist>>

\* Mutant: the loop is left after an item that was not committed.
Delay_BreakOnError ==
  /\ pc = "delay"
  /\ trace' = [trace EXCEPT ![Len(trace)].slept = (idx < Len(exercises))]
  /\ idx' = idx + 1
  /\ response_text' = "none"
  /\ pc' = IF trace[Len(trace)].what = "committed" THEN "loop" ELSE "done"
  /\ UNCHANGED <<parseVars, inputVars, report, fileVars, run, memVars, loaded,
                 loadedOK, calls, writesFor, writeFails, interrupted,
                 crossHist>>

\* Back in the loop after enrich_exercise: `if idx < total: time.sleep`.
Delay ==
  /\ pc = "delay"
  /\ trace' = [trace EXCEPT ![Len(trace)].slept = (idx < Len(exercises))]
  /\ idx' = idx + 1
  /\ response_text' = "none"
  /\ pc' = "loop"
  /\ UNCHANGED <<parseVars, inputVars, report, fileVars, run, memVars, loaded,
                 loadedOK, calls, writesFor, writeFails, interrupted,
                 crossHist>>

\* KeyboardInterrupt inside process_all_exercises (main prints the resume
\* note and exits), or a kill of the process: the run ends where it stands,
\* the files stay as they are and the memory of the process is gone.
Interrupt ==
  /\ pc \in {"start", "loop", "call", "save_progress", "dump_progress",
             "save_output", "dump_output", "delay"}
  /\ pc' = "done"
  /\ interrupted' = TRUE
  /\ Faulted
  /\ idx' = 0
  /\ processed_ids' = << >>
  /\ enriched_exercises' = OutList(<< >>)
  /\ response_text' = "none"
  /\ loaded' = {}
  /\ loadedOK' = FALSE
  /\ calls' = << >>
  /\ writesFor' = {}
  /\ trace' = << >>
  /\ writeFails' = {}
  /\ report' = << >>
  /\ UNCHANGED <<parseVars, inputVars, fileVars, run>>

\* The script is started again on the same input: a new process, whose
\* memory is fresh; the files are what the last run left.
Rerun ==
  /\ pc = "done"
  /\ run < MaxRuns
  /\ run' = run + 1
  /\ pc' = "init"
  /\ idx' = 0
  /\ processed_ids' = << >>
  /\ enriched_exercises' = OutList(<< >>)
  /\ response_text' = "none"
  /\ loaded' = {}
  /\ loadedOK' = FALSE
  /\ calls' = << >>
  /\ writesFor' = {}
  /\ trace' = << >>
  /\ writeFails' = {}
  /\ interrupted' = FALSE
  /\ report' = << >>
  /\ prevOut' = IF faulty THEN FileAbsent ELSE outputFile
  /\ UNCHANGED <<parseVars, inputVars, fileVars, faulty, seenOK, det>>

Next ==
  \/ Construct
  \/ AllProcessedReturn
  \/ EnterLoop
  \/ Finish
  \/ Skip
  \/ Invoke
  \/ ProviderReturn
  \/ SaveProgress
  \/ DumpProgress
  \/ SaveEnriched
  \/ DumpEnriched
  \/ Delay
  \/ Interrupt
  \/ Rerun

Spec == Init /\ [][Next]_vars

\* ------------------------------------------- the run from the input file
\* What INPUT_FILE can hold when main starts.
InputFiles ==
  {InputMissing, InputBadJson, InputScalar}
    \cup {InputOf(l) : l \in SeqsUpTo(Ids \cup {NonObject}, MaxLen)}
    \cup {InputIterable(l) : l \in SeqsUpTo({NonObject}, MaxLen)}

\* main before load_exercises is called.
InitInput ==
  /\ inputFile \in InputFiles
  /\ exercises = << >>
  /\ progressFile \in InitProgressFiles
  /\ outputFile \in InitOutputFiles
  /\ run = 1
  /\ pc = "boot"
  /\ idx = 0
  /\ processed_ids = << >>
  /\ enriched_exercises = OutList(<< >>)
  /\ response_text = "none"
  /\ raw = NoCall
  /\ verdict = NoCall
  /\ loaded = {}
  /\ loadedOK = FALSE
  /\ calls = << >>
  /\ writesFor = {}
  /\ trace = << >>
  /\ writeFails = {}
  /\ interrupted = FALSE
  /\ report = << >>
  /\ faulty = ~CleanFiles(progressFile, outputFile)
  /\ seenOK = NoSeen
  /\ det = TRUE
  /\ prevOut = IF faulty THEN FileAbsent ELSE outputFile

\* load_exercises: a missing file and invalid JSON end the script
\* (sys.exit(1)); len() of a JSON number, boolean or null raises a
\* TypeError nobody catches; any other value is returned as it is.
LoadExercises ==
  /\ pc = "boot"
  /\ IF inputFile.kind \in {"list", "iterable"}
     THEN /\ exercises' = inputFile.data
          /\ pc' = "init"
     ELSE /\ exercises' = exercises
          /\ pc' = "aborted"
  /\ UNCHANGED <<parseVars, inputFile, report, fileVars, run, idx, memVars,
                 response_text, runHist, crossHist>>

\* `exercise.get("id")` on an element that is no object: the
\* AttributeError leaves process_all_exercises and main, and the script
\* dies.
ItemCrash ==
  /\ pc = "loop"
  /\ idx <= Len(exercises)
  /\ ~IsObject(exercises[idx])
  /\ pc' = "aborted"
  /\ UNCHANGED <<parseVars, inputVars, report, fileVars, run, idx, memVars,
                 response_text, runHist, crossHist>>

NextInput ==
  \/ LoadExercises
  \/ ItemCrash
  \/ Next

SpecInput == InitInput /\ [][NextInput]_vars


\* ------------------------------------------------- the parser on its own
\* _parse_response is about to be called on a response text; the rest of
\* the program is at rest.
InitParse ==
  /\ raw \in RawTexts(MaxTrans, MaxLines)
  /\ verdict = NoCall
  /\ pc = "parse"
  /\ exercises = << >>
  /\ inputFile = InputOf(exercises)
  /\ progressFile = FileAbsent
  /\ outputFile = FileAbsent
  /\ run = 1
  /\ idx = 0
  /\ processed_ids = << >>
  /\ enriched_exercises = OutList(<< >>)
  /\ response_text = "none"
  /\ loaded = {}
  /\ loadedOK = FALSE
  /\ calls = << >>
  /\ writesFor = {}
  /\ trace = << >>
  /\ writeFails = {}
  /\ interrupted = FALSE
  /\ report = << >>
  /\ faulty = FALSE
  /\ seenOK = NoSeen
  /\ det = TRUE
  /\ prevOut = FileAbsent

\* One call of _parse_response.
Parse ==
  /\ pc = "parse"
  /\ verdict' = ParseText(raw)
  /\ pc' = "parsed"
  /\ UNCHANGED <<raw, inputVars, report, fileVars, run, idx, memVars,
                 response_text, runHist, crossHist>>

ParseSpec == InitParse /\ [][Parse]_vars

\* ------------------------------------------------------------ properties
\* What a new run would load from the two files.
PersistedIds == Range(LoadProgress(progressFile))
PersistedRecords == LoadExistingOutput(outputFile).items

\* The loop stands between two items (or before the first, or after the
\* last of an uninterrupted run).
AtItemBoundary ==
  \/ pc \in {"start", "loop", "delay"}
  \/ pc = "done" /\ ~interrupted

\* Some item of the current run was committed.
Committed(id) == \E j \in 1..Len(trace) :
                   trace[j].id = id /\ trace[j].what = "committed"

\* C1: at every instant of a run that started from consistent files and
\* met no fault so far, every id in the persisted progress state has a
\* matching record in the persisted output store.
C1_CrashConsistent ==
  ~faulty => \A id \in PersistedIds : CountOf(id, PersistedRecords) >= 1

\* C2: whenever a step of a so far fault-free run persists the id of the
\* current item to the progress file, the record of that id is already
\* persisted in the output file.
C2_OutputBeforeProgress ==
  [][(~faulty /\ pc = "dump_progress"
        /\ IsProcessed(exercises[idx], LoadProgress(progressFile')))
       => CountOf(exercises[idx], PersistedRecords) >= 1]_vars

\* C3: if the stores loaded at the start of the run satisfy the store
\* invariant, then at every item boundary an id is in the completed ids iff
\* exactly one record of the output store carries it; while no fault has
\* happened, the same holds of what the two files hold.
C3_StoreInvariant ==
  (AtItemBoundary /\ loadedOK) =>
     /\ enriched_exercises.shape = "list"
     /\ StoreInv(processed_ids, enriched_exercises.items)
     /\ ~faulty => StoreInv(LoadProgress(progressFile), PersistedRecords)

\* A run that loaded a non-empty consistent store stands after a commit.
C3_Witness ==
  /\ pc = "delay"
  /\ loadedOK
  /\ loaded # {}
  /\ Committed(exercises[idx])
  /\ ~faulty


\* C4: with unique input ids, a provider that answers each id the same way
\* every time, consistent files at the first start and no write failure or
\* interruption, a further run over the same input leaves the output file's
\* records equal to those the previous run left, one record per completed
\* id and none besides.
C4_Idempotent ==
  (pc = "done" /\ run >= 2 /\ ~faulty /\ det /\ NoDup(exercises)) =>
     /\ PersistedRecords = LoadExistingOutput(prevOut).items
     /\ NoDup(RecordIds(PersistedRecords))
     /\ \A id \in PersistedIds : CountOf(id, PersistedRecords) = 1
     /\ Range(RecordIds(PersistedRecords)) = PersistedIds

\* A second fault-free run over two ids ends having skipped the id the
\* first run got accepted and committed, and having had the other one
\* rejected again.
C4_Witness ==
  /\ pc = "done" /\ run = 2 /\ ~faulty /\ det /\ NoDup(exercises)
  /\ Len(exercises) = 2
  /\ Len(LoadExistingOutput(prevOut).items) = 1
  /\ \E j \in 1..Len(trace) :
       trace[j].what = "skipped" /\ seenOK[trace[j].id] = "ok"
  /\ \E j \in 1..Len(trace) : trace[j].what = "abandoned"

\* C5: the provider is never invoked, and no store write is started, for an
\* id that was in the completed ids loaded at the start of the run.
C5_ResumeSkip ==
  \A id \in loaded : id \notin Range(calls) /\ id \notin writesFor

\* A finished run whose loaded ids include an input id, and which called
\* the provider for another input id.
C5_Witness ==
  /\ pc = "done" /\ ~interrupted
  /\ \E i \in 1..Len(exercises) : exercises[i] \in loaded
  /\ calls # << >>
  /\ writesFor # {}

\* C6: an uninterrupted run has invoked the provider for every input item
\* whose id was not in the loaded completed ids.
C6_ResumeComplete ==
  (pc = "done" /\ ~interrupted) =>
     \A i \in 1..Len(exercises) :
        exercises[i] \notin loaded => exercises[i] \in Range(calls)

\* C7: the step that abandons an item (provider failure, empty response,
\* rejected response) changes neither the in-memory stores nor the files,
\* and leaves the item's id out of what the next run will load.
C7_AbandonUntouched ==
  [][(pc = "call" /\ pc' = "delay") =>
       /\ UNCHANGED <<processed_ids, enriched_exercises, progressFile,
                      outputFile>>
       /\ ~IsProcessed(exercises[idx], LoadProgress(progressFile'))]_vars

\* An item has just been abandoned.
C7_Witness ==
  /\ pc = "delay"
  /\ trace # << >>
  /\ trace[Len(trace)].what = "abandoned"
  /\ response_text = "badschema"

\* Some item of the current run met a provider error, a rejected response
\* or a storage write error.
HadItemError ==
  \/ \E j \in 1..Len(trace) : trace[j].what \in {"abandoned", "save_error"}
  \/ writeFails # {}

\* C8: a run in which an item met an error and that was not interrupted
\* has dealt with every input item: each was attempted, or skipped because
\* its id was already completed.
C8_ErrorContained ==
  (pc = "done" /\ ~interrupted /\ HadItemError) =>
     /\ Len(trace) = Len(exercises)
     /\ \A j \in 1..Len(trace) :
          /\ trace[j].id = exercises[j]
          /\ trace[j].what = "skipped" =>
               \/ trace[j].id \in loaded
               \/ \E k \in 1..(j - 1) :
                    trace[k].id = trace[j].id /\ trace[k].what # "skipped"

\* A finished run whose first item met an error and whose second item was
\* attempted.
C8_Witness ==
  /\ pc = "done" /\ ~interrupted
  /\ Len(trace) = 2
  /\ \/ trace[1].what \in {"abandoned", "save_error"}
     \/ <<trace[1].id, "output">> \in writeFails
  /\ trace[2].what # "skipped"

\* C9: the output file never holds two records with the same id.
C9_NoDuplicateRecords == NoDup(RecordIds(PersistedRecords))

\* C10: an id whose output-file persist failed, and whose record the
\* output file does not hold, is not in the persisted progress state.
C10_NoFalseProgress ==
  \A id \in Ids :
     (<<id, "output">> \in writeFails /\ CountOf(id, PersistedRecords) = 0)
        => id \notin PersistedIds

\* C11: in a history without any fault so far, each backing file holds at
\* every instant a complete snapshot (or does not exist yet), so that a
\* crash at that instant leaves the previous or the new snapshot and never
\* an empty, truncated or unparseable file.
C11_AtomicReplace ==
  ~faulty => /\ progressFile.kind \in {"absent", "ok"}
             /\ outputFile.kind \in {"absent", "ok"}

\* C12: whatever the backing file of a store holds other than the JSON the
\* script writes (nothing, unparseable text, JSON of another shape), the
\* store loaded from it is the empty collection when the run starts.
C12_NonFatalLoad ==
  pc = "start" =>
     /\ progressFile.kind # "ok" => processed_ids = << >>
     /\ outputFile.kind # "ok" => enriched_exercises = OutList(<< >>)

\* enrich_exercise is at work on exercises[idx], past the provider call.
InFlight ==
  pc \in {"call", "save_progress", "dump_progress", "save_output",
          "dump_output"}

\* The items of the run the provider was called for, and those whose
\* record was appended, as far as the loop has dealt with them.
Attempted == SelectSeq(trace, LAMBDA e : e.what # "skipped")
Appended == SelectSeq(trace, LAMBDA e : e.what = "committed")

\* The loop has dealt with the first Len(trace) items, one entry each.
TraceFollowsInput ==
  /\ Len(trace) <= Len(exercises)
  /\ \A j \in 1..Len(trace) : trace[j].id = exercises[j]
  /\ InFlight => Len(trace) = idx - 1
  /\ pc = "delay" => Len(trace) = idx

\* C16: within one run the number of provider calls equals the number of
\* input items attempted (one entry per item, plus the item in flight), so
\* no item is called for twice, whatever its outcome.
C16_NoRetry ==
  /\ TraceFollowsInput
  /\ Len(calls) = Len(Attempted) + (IF InFlight THEN 1 ELSE 0)

\* A finished run of two items: the first call failed or was rejected, the
\* second succeeded, and the provider was called twice in all.
C16_Witness ==
  /\ pc = "done" /\ ~interrupted
  /\ Len(trace) = 2
  /\ trace[1].what = "abandoned"
  /\ trace[2].what = "committed"
  /\ Len(calls) = 2

\* C17: within a run the loop index never goes back; every provider call
\* is for the item at the loop index, made when each earlier item of the
\* input has been dealt with; and every record the run adds is the record
\* of the item at the loop index, put at the end of the output store.
C17_AttemptOrder ==
  [][(pc' # "init" /\ ~interrupted') =>
       /\ idx' >= idx
       /\ calls' # calls =>
            /\ calls' = Append(calls, exercises[idx])
            /\ Len(trace) = idx - 1
            /\ \A j \in 1..Len(trace) : trace[j].id = exercises[j]
       /\ (pc # "init" /\ enriched_exercises' # enriched_exercises) =>
            /\ Len(calls) > 0 /\ calls[Len(calls)] = exercises[idx]
            /\ RecordIds(enriched_exercises'.items) =
                 Append(RecordIds(enriched_exercises.items),
                        exercises[idx])]_vars

\* The record of the second of two different items is being written after
\* the first one was committed.
C17_Witness ==
  /\ pc = "dump_output"
  /\ idx = 2
  /\ exercises[1] # exercises[2]
  /\ trace[1].what = "committed"
  /\ calls = <<exercises[1], exercises[2]>>

\* C18: once the loop has moved past an item, a delay has elapsed after it
\* iff the item was attempted and is not the last of the input; hence every
\* provider call but the first of a run is preceded by a delay after the
\* previous attempted item.
C18_InterItemDelay ==
  /\ \A j \in 1..Len(trace) :
       (j < Len(trace) \/ pc # "delay") =>
          trace[j].slept = (trace[j].what # "skipped" /\ j < Len(exercises))
  /\ InFlight =>
       \A j \in 1..Len(trace) : trace[j].what # "skipped" => trace[j].slept

\* A finished run of two attempted items: a delay after the first, none
\* after the second.
C18_Witness ==
  /\ pc = "done" /\ ~interrupted
  /\ Len(trace) = 2
  /\ trace[1].what # "skipped" /\ trace[1].slept
  /\ trace[2].what # "skipped" /\ ~trace[2].slept

\* `short` is an initial part of `long`.
IsPrefix(short, long) ==
  /\ Len(short) <= Len(long)
  /\ SubSeq(long, 1, Len(short)) = short

\* C19: every step of a live process leaves the completed ids a superset
\* of what they were and the records of the output store an extension of
\* what they were; and in a history without fault every complete progress
\* file holds the ids the run loaded, every complete output file starts
\* with the records the previous run left.
C19_GrowOnly ==
  [][(pc' # "init" /\ ~interrupted') =>
       /\ Range(processed_ids) \subseteq Range(processed_ids')
       /\ enriched_exercises.shape = enriched_exercises'.shape
            \/ pc = "init"
       /\ IsPrefix(enriched_exercises.items, enriched_exercises'.items)
       /\ (~faulty' /\ progressFile'.kind = "ok") => loaded' \subseteq
             Range(LoadProgress(progressFile'))
       /\ (~faulty' /\ outputFile'.kind = "ok") =>
             IsPrefix(LoadExistingOutput(prevOut').items,
                      LoadExistingOutput(outputFile').items)]_vars

\* A run that loaded a completed id and a record has committed a further
\* item.
C19_Witness ==
  /\ pc = "delay"
  /\ ~faulty
  /\ loaded # {}
  /\ Committed(exercises[idx])
  /\ Len(enriched_exercises.items) >= 2
  /\ Len(processed_ids) >= 2

\* The values the run has printed for a count.
Reported(what) ==
  {report[j].n : j \in {k \in 1..Len(report) : report[k].what = what}}

\* C20: an uninterrupted run has reported, when it ends, a total equal to
\* the number of input items, an already-processed count equal to the
\* number of input items whose id was among the loaded completed ids, and
\* a count of enriched items equal to the number of items this run
\* committed.
C20_SummaryCounts ==
  (pc = "done" /\ ~interrupted) =>
     /\ Reported("total") = {Len(exercises)}
     /\ Reported("processed") =
          {Cardinality({i \in 1..Len(exercises) : exercises[i] \in loaded})}
     /\ Reported("enriched") = {Len(Appended)}

\* C15: when the input file is missing or does not hold a list of objects,
\* the run never gets to a provider call or to a store write, and does not
\* run to its normal end.
C15_FatalConfigError ==
  ~ValidInput(inputFile) =>
     /\ calls = << >>
     /\ writesFor = {}
     /\ pc = "done" => interrupted

\* C13: _parse_response returns data iff the response text parses and
\* the document is an object with a primary-muscle object having both
\* name fields and with a translations array of exactly two objects, each
\* with the five fields, an integer language of 2 or 4, and arrays for
\* aliases and notes (any single violation makes it return no data); and
\* the data it returns is the parsed document, unmodified.
C13_AcceptanceCriterion ==
  LET d == raw.doc
      acceptable ==
        /\ IsJson(StripFences(raw.lines), d)
        /\ d.top = "object"
        /\ d.pm.kind = "object"
        /\ {"name", "name_en"} \subseteq d.pm.keys
        /\ d.tr.kind = "list"
        /\ Len(d.tr.items) = 2
        /\ \A i \in 1..Len(d.tr.items) :
             LET t == d.tr.items[i]
             IN /\ t.kind = "object"
                /\ {"name", "description", "language", "aliases", "notes"}
                     \subseteq t.fields
                /\ t.language.type = "int"
                /\ t.language.val \in {2, 4}
                /\ t.aliases.type = "list"
                /\ t.notes.type = "list"
  IN pc = "parsed" =>
        /\ verdict.kind = "Data" <=> acceptable
        /\ verdict.kind = "Data" => verdict.data = d

\* A document meeting the schema, wrapped in code fences, was accepted.
C13_Witness ==
  /\ pc = "parsed"
  /\ raw.lines = <<"fence", "doc", "fence">>
  /\ Len(raw.doc.tr.items) = 2
  /\ raw.doc.tr.items[1].language # raw.doc.tr.items[2].language
  /\ verdict = ReturnData(raw.doc)

\* C14: no exception leaves _parse_response, whatever the response text.
C14_NeverRaises == pc = "parsed" => verdict.kind # "Raise"

\* C21: a run that has come to its end without being interrupted has
\* considered each item of the input exactly once, in input order; a run
\* that ended before the loop counts as having considered the items only
\* if the id of every one of them was among the loaded completed ids.
C21_EndsAfterEachItemOnce ==
  (pc = "done" /\ ~interrupted) =>
     \/ /\ Len(trace) = Len(exercises)
        /\ \A j \in 1..Len(trace) : trace[j].id = exercises[j]
     \/ /\ trace = << >>
        /\ \A i \in 1..Len(exercises) : exercises[i] \in loaded

\* C22: once an occurrence of an id has been committed in a run, every
\* later occurrence of that id in the same run is skipped without a
\* provider call; so the run commits an id at most once, the completed ids
\* list no id twice, and (in a history without fault) the output store
\* holds at most one record of the id more than the previous run left.
C22_RepeatedIdsSkipped ==
  /\ \A k \in 2..Len(trace) :
       trace[k].what # "skipped" =>
          \A j \in 1..(k - 1) :
             trace[j].what = "committed" => trace[j].id # trace[k].id
  /\ InFlight =>
       \A j \in 1..Len(trace) :
          trace[j].what = "committed" => trace[j].id # exercises[idx]
  /\ NoDup(processed_ids)
  /\ ~faulty =>
       \A id \in Ids :
          CountOf(id, enriched_exercises.items)
            <= CountOf(id, LoadExistingOutput(prevOut).items) + 1

\* A finished run over an input naming the same id twice: the first
\* occurrence was committed, the second skipped, with one provider call.
C22_Witness ==
  /\ pc = "done" /\ ~interrupted
  /\ Len(exercises) = 2
  /\ exercises[1] = exercises[2]
  /\ Len(trace) = 2
  /\ trace[1].what = "committed"
  /\ trace[2].what = "skipped"
  /\ Len(calls) = 1

====
